---- MODULE Spec2Model ----
(***************************************************************************)
(* Model of solidity_analyzer.py: a batch runner that walks                *)
(* ./contracts-evaluation for *.sol files, runs solc and slither on each   *)
(* one and dumps the combined results to full_analysis_report.json.        *)
(*                                                                         *)
(* Text is a sequence of one-character strings.  A path is the sequence of *)
(* its components (pathlib's .parts); a component is a sequence of tokens, *)
(* a token being "." or a dot-free, slash-free run of characters.          *)
(***************************************************************************)
EXTENDS Integers, Sequences, FiniteSets, TLC

(* ------------------------------ bounds --------------------------------- *)
MaxLen == 3
MaxErrLen == 1
MaxRuns == 2
MaxFsChanges == 1

(* ------------------------- text and JSON values ------------------------ *)
Alphabet == {"{", "}", "[", "]", ",", "1", " ", "x"}
WS == {" "}
Digits == {"1"}

TextsUpTo(n) == UNION {[1..k -> Alphabet] : k \in 0..n}

JInt(n) == [t |-> "int", n |-> n, items |-> <<>>]
JList(items) == [t |-> "list", n |-> 0, items |-> items]
JDict == [t |-> "dict", n |-> 0, items |-> <<>>]

(* Result of a decoding step: a value and the index after it, or the       *)
(* JSONDecodeError message and the (1-based) index it points at.           *)
Parsed(v, e) == [ok |-> TRUE, val |-> v, end |-> e, msg |-> ""]
Failed(m, e) == [ok |-> FALSE, val |-> JDict, end |-> e, msg |-> m]

RECURSIVE SkipWs(_, _)
SkipWs(s, i) == IF i <= Len(s) /\ s[i] \in WS THEN SkipWs(s, i + 1) ELSE i

RECURSIVE DigitsEnd(_, _)
DigitsEnd(s, i) == IF i <= Len(s) /\ s[i] \in Digits THEN DigitsEnd(s, i + 1) ELSE i

RECURSIVE IntOf(_, _, _)
IntOf(s, i, e) == IF i >= e THEN 0 ELSE 10 * IntOf(s, i, e - 1) + 1

CharAt(s, i) == IF i <= Len(s) THEN s[i] ELSE ""

JSONObject(s, i) ==
    LET e == SkipWs(s, i)
    IN IF CharAt(s, e) = "}"
       THEN Parsed(JDict, e + 1)
       ELSE Failed("Expecting property name enclosed in double quotes", e)

RECURSIVE scan_once(_, _)
RECURSIVE ArrayItems(_, _, _)

JSONArray(s, i) ==
    LET e == SkipWs(s, i)
    IN IF CharAt(s, e) = "]"
       THEN Parsed(JList(<<>>), e + 1)
       ELSE ArrayItems(s, e, <<>>)

ArrayItems(s, i, values) ==
    LET r == scan_once(s, i)
    IN IF ~r.ok THEN r
       ELSE LET e == SkipWs(s, r.end)
                vs == Append(values, r.val)
            IN IF CharAt(s, e) = "]" THEN Parsed(JList(vs), e + 1)
               ELSE IF CharAt(s, e) # "," THEN Failed("Expecting ',' delimiter", e)
               ELSE ArrayItems(s, SkipWs(s, e + 1), vs)

scan_once(s, i) ==
    IF i > Len(s) THEN Failed("Expecting value", i)
    ELSE IF s[i] = "{" THEN JSONObject(s, i + 1)
    ELSE IF s[i] = "[" THEN JSONArray(s, i + 1)
    ELSE IF s[i] \in Digits
         THEN LET e == DigitsEnd(s, i) IN Parsed(JInt(IntOf(s, i, e)), e)
    ELSE Failed("Expecting value", i)

json_loads(s) ==
    LET r == scan_once(s, SkipWs(s, 1))
    IN IF ~r.ok THEN r
       ELSE LET e == SkipWs(s, r.end)
            IN IF e # Len(s) + 1 THEN Failed("Extra data", e) ELSE r

(* str(JSONDecodeError): the alphabet has no newline, so line is 1 and the *)
(* column is the 1-based index. *)
ErrorText(r) ==
    r.msg \o ": line 1 column " \o ToString(r.end)
          \o " (char " \o ToString(r.end - 1) \o ")"

(* ----------------------- the two tool wrappers ------------------------- *)
ReturnCodes == {0, 1, 2}
(* str(e) of the OSError subprocess.run raises when it cannot start tool *)
ExcTexts(tool) ==
    {"[Errno 2] No such file or directory: '" \o tool \o "'",
     "[Errno 13] Permission denied: '" \o tool \o "'"}

Completed(rc, out, err) ==
    [raised |-> FALSE, exc |-> "", returncode |-> rc, stdout |-> out, stderr |-> err]
Raised(msg) ==
    [raised |-> TRUE, exc |-> msg, returncode |-> 0, stdout |-> <<>>, stderr |-> <<>>]

(* Variant: the two streams are exchanged. *)
run_solc_check_swapped(sol_file, p) ==
    IF p.raised
    THEN [file |-> sol_file, success |-> FALSE, error |-> p.exc]
    ELSE LET success == (p.returncode = 0)
         IN [file |-> sol_file, success |-> success,
             solc_output |-> IF success THEN p.stderr ELSE p.stdout]

(* Variant: subprocess.run is called outside the try block. *)
run_solc_check_unguarded(sol_file, p) ==
    IF p.raised
    THEN [exception |-> p.exc]
    ELSE LET success == (p.returncode = 0)
         IN [file |-> sol_file, success |-> success,
             solc_output |-> IF success THEN p.stdout ELSE p.stderr]

run_solc_check(sol_file, p) ==
    IF p.raised
    THEN [file |-> sol_file, success |-> FALSE, error |-> p.exc]
    ELSE LET success == (p.returncode = 0)
         IN [file |-> sol_file, success |-> success,
             solc_output |-> IF success THEN p.stdout ELSE p.stderr]

SelectedOutput(p) == IF p.stdout # <<>> THEN p.stdout ELSE p.stderr

(* Variant: stderr is preferred over stdout. *)
run_slither_check_prefers_stderr(sol_file, p) ==
    IF p.raised
    THEN [file |-> sol_file, success |-> FALSE, error |-> p.exc]
    ELSE LET success == (p.returncode = 0)
             output == IF p.stderr # <<>> THEN p.stderr ELSE p.stdout
             r == json_loads(output)
         IN IF output = <<>>
            THEN [file |-> sol_file, success |-> success, slither_output |-> JDict]
            ELSE IF r.ok
            THEN [file |-> sol_file, success |-> success, slither_output |-> r.val]
            ELSE [file |-> sol_file, success |-> FALSE, error |-> ErrorText(r)]

(* Variant: json.loads is called outside the try block. *)
run_slither_check_unguarded(sol_file, p) ==
    IF p.raised
    THEN [file |-> sol_file, success |-> FALSE, error |-> p.exc]
    ELSE LET success == (p.returncode = 0)
             output == SelectedOutput(p)
             r == json_loads(output)
         IN IF output = <<>>
            THEN [file |-> sol_file, success |-> success, slither_output |-> JDict]
            ELSE IF r.ok
            THEN [file |-> sol_file, success |-> success, slither_output |-> r.val]
            ELSE [exception |-> ErrorText(r)]

(* Variant: the handler reports the exit status instead of False. *)
run_slither_check_keeps_success(sol_file, p) ==
    IF p.raised
    THEN [file |-> sol_file, success |-> FALSE, error |-> p.exc]
    ELSE LET success == (p.returncode = 0)
             output == SelectedOutput(p)
             r == json_loads(output)
         IN IF output = <<>>
            THEN [file |-> sol_file, success |-> success, slither_output |-> JDict]
            ELSE IF r.ok
            THEN [file |-> sol_file, success |-> success, slither_output |-> r.val]
            ELSE [file |-> sol_file, success |-> success, error |-> ErrorText(r)]

run_slither_check(sol_file, p) ==
    IF p.raised
    THEN [file |-> sol_file, success |-> FALSE, error |-> p.exc]
    ELSE LET success == (p.returncode = 0)
             output == SelectedOutput(p)
             r == json_loads(output)
         IN IF output = <<>>
            THEN [file |-> sol_file, success |-> success, slither_output |-> JDict]
            ELSE IF r.ok
            THEN [file |-> sol_file, success |-> success, slither_output |-> r.val]
            ELSE [file |-> sol_file, success |-> FALSE, error |-> ErrorText(r)]

(* ------------------------------ paths ---------------------------------- *)
BASE_DIR == <<"contracts-evaluation">>

foo_sol == <<"foo", ".", "sol">>
bar_t_sol == <<"bar", ".", "t", ".", "sol">>
foo_txt == <<"foo", ".", "txt">>

ShallowFoo == <<BASE_DIR, foo_sol>>
ModelAFoo == <<BASE_DIR, <<"modelA">>, foo_sol>>
NestedFoo == <<BASE_DIR, <<"modelA">>, <<"sub">>, foo_sol>>
ModelBBar == <<BASE_DIR, <<"modelB">>, bar_t_sol>>
ModelAText == <<BASE_DIR, <<"modelA">>, foo_txt>>

AllPaths == {ShallowFoo, ModelAFoo, NestedFoo, ModelBBar, ModelAText}
RerunPaths == {ShallowFoo, ModelAFoo, ModelBBar}

(* fnmatch(name, "*.sol") *)
MatchesSol(name) ==
    /\ Len(name) >= 2
    /\ name[Len(name) - 1] = "."
    /\ name[Len(name)] = "sol"

ParentOf(p) == SubSeq(p, 1, Len(p) - 1)

(* The directories of the tree; they exist throughout, empty or not. *)
Dirs == UNION {{SubSeq(p, 1, n) : n \in 1..(Len(p) - 1)} : p \in AllPaths}
Children(d) == {c \in Dirs : Len(c) = Len(d) + 1 /\ ParentOf(c) = d}
Perms(S) == {q \in [1..Cardinality(S) -> S] : \A i, j \in 1..Cardinality(S) : q[i] = q[j] => i = j}

(* _WildcardSelector._select_from: the entries of one directory, as listed *)
(* by scandir at the time the walk reaches it, that match "*.sol"         *)
ListSol(files, d) == {p \in files : ParentOf(p) = d /\ MatchesSol(p[Len(p)])}

RECURSIVE rfind(_, _)
rfind(name, i) == IF i = 0 \/ name[i] = "." THEN i ELSE rfind(name, i - 1)

(* PurePath.stem: the final component without its last suffix *)
stem(p) ==
    LET name == p[Len(p)]
        i == rfind(name, Len(name))
    IN IF 1 < i /\ i < Len(name) THEN SubSeq(name, 1, i - 1) ELSE name

RECURSIVE str(_)
str(p) ==
    IF Len(p) = 1 THEN p[1]
    ELSE str(SubSeq(p, 1, Len(p) - 1)) \o <<"/">> \o p[Len(p)]

(* Variant: the depth test is off by one. *)
TooShallow_lt2(parts) == Len(parts) < 2

TooShallow(parts) == Len(parts) < 3

(* Variant: model is the name of the file's parent directory. *)
Key_parent(p) == p[Len(p) - 1] \o <<"/">> \o stem(p)

(* f"{model}/{contract}" with model = parts[1], contract = sol_path.stem *)
Key(p) == p[2] \o <<"/">> \o stem(p)

(* ------------------ outcomes of subprocess.run ------------------------- *)
IsToolProc(p) ==
    \/ \E m \in ExcTexts("solc") \cup ExcTexts("slither") : p = Raised(m)
    \/ \E rc \in ReturnCodes, out \in TextsUpTo(MaxLen), err \in TextsUpTo(MaxErrLen) :
            p = Completed(rc, out, err)

SolcProcs ==
    {Raised("[Errno 2] No such file or directory: 'solc'"),
     Completed(0, <<"{", "}">>, <<"x">>),
     Completed(1, <<>>, <<"x">>)}

SlitherProcs ==
    {Raised("[Errno 2] No such file or directory: 'slither'"),
     Completed(0, <<"{", "}">>, <<>>),
     Completed(1, <<"[", "1", "]">>, <<>>),
     Completed(0, <<"x">>, <<>>)}

(* ------------------------------ state ---------------------------------- *)
VARIABLES
    fs,                 \* files under ./contracts-evaluation
    pc,                 \* position in analyze_all_contracts
    stack,              \* rglob: directories the walk has still to visit
    remaining,          \* rglob: matches of the listed directory not yet yielded
    yielded,            \* rglob: paths yielded in this run
    changes,            \* files created or deleted so far by other processes
    sol_path,           \* loop variable
    solc_result,        \* value of run_solc_check(str(sol_path)) in the dict display
    combined_results,   \* the aggregate
    report,             \* full_analysis_report.json
    overwritten,        \* what open(REPORT_FILE, "w") of this run truncated
    log,                \* tool invocations and writes of the current run
    run,                \* number of the current run
    proc,               \* wrapper call: what subprocess.run does
    arg_file,           \* wrapper call: sol_file
    called,             \* wrapper call: which wrapper returned
    ret                 \* wrapper call: its return value

vars == <<fs, pc, stack, remaining, yielded, changes, sol_path, solc_result, combined_results, report,
          overwritten, log, run, proc, arg_file, called, ret>>
batchVars == <<fs, pc, stack, remaining, yielded, changes, sol_path, solc_result, combined_results, report,
               overwritten, log, run>>
callVars == <<proc, arg_file, called, ret>>

NoFile == [exists |-> FALSE, content |-> <<>>]
NoResult == [file |-> <<>>, success |-> FALSE]
Event(op, p, o) == [op |-> op, file |-> p, proc |-> o]
NoProc == Raised("")

(* An exception that leaves a wrapper instead of being returned as a result. *)
Escaped(r) == "exception" \in DOMAIN r

(* Variant: an existing entry is kept (setdefault). *)
Store_setdefault(results, key, entry) == results @@ (key :> entry)

(* combined_results[key] = entry *)
Store(results, key, entry) == (key :> entry) @@ results

InitRun ==
    /\ pc = "start"
    /\ stack = <<>>
    /\ remaining = {}
    /\ yielded = {}
    /\ changes = 0
    /\ sol_path = <<>>
    /\ solc_result = NoResult
    /\ combined_results = <<>>
    /\ report = NoFile
    /\ overwritten = NoFile
    /\ log = <<>>
    /\ run = 1

InitCall ==
    /\ proc = Raised("[Errno 2] No such file or directory: 'solc'")
    /\ arg_file = <<>>
    /\ called = "none"
    /\ ret = NoResult

Init == fs \in SUBSET AllPaths /\ InitRun /\ InitCall

InitRerun == fs \in SUBSET RerunPaths /\ InitRun /\ InitCall

InitTool ==
    /\ fs = {} /\ InitRun
    /\ IsToolProc(proc)
    /\ arg_file \in {str(ModelAFoo), str(ModelBBar)}
    /\ called = "none"
    /\ ret = NoResult

(* --------------------- analyze_all_contracts --------------------------- *)
StartRun ==
    /\ pc = "start"
    /\ combined_results' = <<>>
    /\ stack' = <<ParentOf(ShallowFoo)>>
    /\ remaining' = {}
    /\ yielded' = {}
    /\ log' = <<>>
    /\ pc' = "loop"
    /\ UNCHANGED <<fs, changes, sol_path, solc_result, report, overwritten, run>>
    /\ UNCHANGED callVars

(* The generator resumes with nothing left of the last listing: it lists   *)
(* the next directory of the walk and queues that directory's children.    *)
ListDir ==
    /\ pc = "loop"
    /\ remaining = {}
    /\ stack # <<>>
    /\ remaining' = ListSol(fs, Head(stack)) \ yielded
    /\ \E order \in Perms(Children(Head(stack))) : stack' = order \o Tail(stack)
    /\ UNCHANGED <<fs, pc, yielded, changes, sol_path, solc_result, combined_results,
                   report, overwritten, log, run>>
    /\ UNCHANGED callVars

SkipShallow ==
    /\ pc = "loop"
    /\ \E p \in remaining :
        /\ TooShallow(p)
        /\ remaining' = remaining \ {p}
        /\ yielded' = yielded \cup {p}
        /\ sol_path' = p
    /\ UNCHANGED <<fs, stack, changes, pc, solc_result, combined_results, report, overwritten, log, run>>
    /\ UNCHANGED callVars

SolcStep ==
    /\ pc = "loop"
    /\ \E p \in remaining, o \in SolcProcs :
        /\ ~TooShallow(p)
        /\ remaining' = remaining \ {p}
        /\ yielded' = yielded \cup {p}
        /\ sol_path' = p
        /\ solc_result' = run_solc_check(str(p), o)
        /\ log' = Append(log, Event("solc", p, o))
        /\ pc' = IF Escaped(run_solc_check(str(p), o)) THEN "crashed" ELSE "slither"
    /\ UNCHANGED <<fs, stack, changes, combined_results, report, overwritten, run>>
    /\ UNCHANGED callVars

SlitherStep ==
    /\ pc = "slither"
    /\ \E o \in SlitherProcs :
        LET r == run_slither_check(str(sol_path), o)
        IN /\ log' = Append(log, Event("slither", sol_path, o))
           /\ IF Escaped(r)
              THEN pc' = "crashed" /\ UNCHANGED combined_results
              ELSE /\ pc' = "loop"
                   /\ combined_results' =
                        Store(combined_results, Key(sol_path),
                              [solc |-> solc_result, slither |-> r])
    /\ UNCHANGED <<fs, stack, remaining, yielded, changes, sol_path, solc_result,
                   report, overwritten, run>>
    /\ UNCHANGED callVars

(* Variant: the new entries are merged into the previous report. *)
WriteReport_merge ==
    /\ pc = "loop"
    /\ remaining = {}
    /\ stack = <<>>
    /\ overwritten' = report
    /\ report' = [exists |-> TRUE, content |-> combined_results @@ report.content]
    /\ log' = Append(log, Event("write", <<>>, NoProc))
    /\ pc' = "done"
    /\ UNCHANGED <<fs, stack, remaining, yielded, changes, sol_path, solc_result,
                   combined_results, run>>
    /\ UNCHANGED callVars

(* Variant: the with-block is indented into the loop body. *)
WriteReport_in_loop ==
    /\ pc = "loop"
    /\ overwritten' = report
    /\ report' = [exists |-> TRUE, content |-> combined_results]
    /\ log' = Append(log, Event("write", <<>>, NoProc))
    /\ pc' = IF remaining = {} /\ stack = <<>> THEN "done" ELSE "loop"
    /\ UNCHANGED <<fs, stack, remaining, yielded, changes, sol_path, solc_result,
                   combined_results, run>>
    /\ UNCHANGED callVars

WriteReport ==
    /\ pc = "loop"
    /\ remaining = {}
    /\ stack = <<>>
    /\ overwritten' = report
    /\ report' = [exists |-> TRUE, content |-> combined_results]
    /\ log' = Append(log, Event("write", <<>>, NoProc))
    /\ pc' = "done"
    /\ UNCHANGED <<fs, stack, remaining, yielded, changes, sol_path, solc_result,
                   combined_results, run>>
    /\ UNCHANGED callVars

(* ------------------------- a further run ------------------------------- *)
Rerun ==
    /\ pc = "done"
    /\ run < MaxRuns
    /\ run' = run + 1
    /\ pc' = "start"
    /\ overwritten' = NoFile
    /\ UNCHANGED <<fs, stack, remaining, yielded, changes, sol_path, solc_result,
                   combined_results, report, log>>
    /\ UNCHANGED callVars

(* ------- other processes change the tree, during or after a run -------- *)
DeleteFile ==
    /\ pc # "start"
    /\ changes < MaxFsChanges
    /\ changes' = changes + 1
    /\ \E p \in fs : fs' = fs \ {p}
    /\ UNCHANGED <<pc, stack, remaining, yielded, sol_path, solc_result, combined_results,
                   report, overwritten, log, run>>
    /\ UNCHANGED callVars

Create(paths) ==
    /\ pc # "start"
    /\ changes < MaxFsChanges
    /\ changes' = changes + 1
    /\ \E p \in paths \ fs : fs' = fs \cup {p}
    /\ UNCHANGED <<pc, stack, remaining, yielded, sol_path, solc_result, combined_results,
                   report, overwritten, log, run>>
    /\ UNCHANGED callVars

CreateFile == Create(AllPaths)
CreateRerunFile == Create(RerunPaths)

(* ----------------------- one wrapper call ------------------------------ *)
CallSolc ==
    /\ called = "none"
    /\ proc.raised => proc.exc \in ExcTexts("solc")
    /\ ret' = run_solc_check(arg_file, proc)
    /\ called' = "solc"
    /\ UNCHANGED <<proc, arg_file>>
    /\ UNCHANGED batchVars

CallSlither ==
    /\ called = "none"
    /\ proc.raised => proc.exc \in ExcTexts("slither")
    /\ ret' = run_slither_check(arg_file, proc)
    /\ called' = "slither"
    /\ UNCHANGED <<proc, arg_file>>
    /\ UNCHANGED batchVars

(* --------------------------- specifications ---------------------------- *)
Next ==
    \/ StartRun \/ ListDir \/ SkipShallow \/ SolcStep \/ SlitherStep \/ WriteReport
    \/ DeleteFile \/ CreateFile
Spec == Init /\ [][Next]_vars

NextRerun ==
    \/ StartRun \/ ListDir \/ SkipShallow \/ SolcStep \/ SlitherStep \/ WriteReport
    \/ Rerun \/ DeleteFile \/ CreateRerunFile
SpecRerun == InitRerun /\ [][NextRerun]_vars

NextTool == CallSolc \/ CallSlither
SpecTool == InitTool /\ [][NextTool]_vars

(* ------------------------------ properties ----------------------------- *)
NameOf(p) == p[Len(p)]
WithoutExt(name) == SubSeq(name, 1, Len(name) - 2)
FirstDirKey(p) == p[2] \o <<"/">> \o WithoutExt(NameOf(p))
ParentDirKey(p) == p[Len(p) - 1] \o <<"/">> \o WithoutExt(NameOf(p))

Deep == {p \in yielded : Len(p) >= 3}
Shallow == {p \in yielded : Len(p) < 3}
Ran(op, p) == \E i \in 1..Len(log) : log[i].op = op /\ log[i].file = p
FilesOf(entry) == {entry.solc.file, entry.slither.file}

(* C1: once the run has written the report, its key set is exactly the set *)
(* of keys of the discovered files with at least 3 path components, every  *)
(* entry holds a "solc" and a "slither" result, and no entry comes from a  *)
(* discovered file with fewer than 3 components.                           *)
C1_KeySet ==
    pc = "done" =>
        /\ DOMAIN report.content = {FirstDirKey(p) : p \in Deep}
        /\ \A k \in DOMAIN report.content :
            /\ DOMAIN report.content[k] = {"solc", "slither"}
            /\ \A p \in Shallow : str(p) \notin FilesOf(report.content[k])

C1_Witness ==
    /\ pc = "done"
    /\ ShallowFoo \in yielded
    /\ ModelAText \in fs
    /\ Cardinality(Deep) = 3
    /\ Cardinality(DOMAIN report.content) = 2

(* C2 as stated: the results of a file are stored under                    *)
(* "<name of the parent directory>/<file name without extension>".         *)
C2_ParentDirKey ==
    /\ \A i \in 1..Len(log) :
        log[i].op = "slither" => ParentDirKey(log[i].file) \in DOMAIN combined_results
    /\ \A k \in DOMAIN combined_results : \A p \in yielded :
        str(p) \in FilesOf(combined_results[k]) => k = ParentDirKey(p)

(* C2 amended: the results of a non-skipped file, at any depth, are stored *)
(* under "<name of the first directory below the root on the file's        *)
(* path>/<file name without extension>".                                   *)
C2_FirstDirKey ==
    /\ \A i \in 1..Len(log) :
        log[i].op = "slither" => FirstDirKey(log[i].file) \in DOMAIN combined_results
    /\ \A k \in DOMAIN combined_results : \A p \in yielded :
        str(p) \in FilesOf(combined_results[k]) => k = FirstDirKey(p)

C2_Witness ==
    /\ pc = "done"
    /\ \E k \in DOMAIN report.content :
        /\ str(NestedFoo) \in FilesOf(report.content[k])
        /\ k = <<"modelA", "/", "foo">>
    /\ \E k \in DOMAIN report.content :
        /\ str(ModelBBar) \in FilesOf(report.content[k])
        /\ k = <<"modelB", "/", "bar", ".", "t">>

(* C3: when the compiler is launched, success is true exactly when the     *)
(* exit code is 0; solc_output is stdout on exit code 0, stderr otherwise. *)
C3_SolcResult ==
    (called = "solc" /\ ~proc.raised) =>
        /\ DOMAIN ret = {"file", "success", "solc_output"}
        /\ proc.returncode = 0 => (ret.success = TRUE /\ ret.solc_output = proc.stdout)
        /\ proc.returncode # 0 => (ret.success = FALSE /\ ret.solc_output = proc.stderr)

C3_Witness ==
    /\ called = "solc"
    /\ ~proc.raised
    /\ proc.returncode = 2
    /\ proc.stdout = <<"{", "}">>
    /\ proc.stderr = <<"x">>
    /\ ret.success = FALSE
    /\ ret.solc_output = <<"x">>

Selected == IF Len(proc.stdout) > 0 THEN proc.stdout ELSE proc.stderr

(* C4: when the linter is launched, stdout is selected if non-empty and    *)
(* stderr otherwise; if the selected text is valid JSON, success equals    *)
(* (exit code = 0) and slither_output is its parsed value; if both streams *)
(* are empty, slither_output is the empty object.                          *)
C4_SlitherParsed ==
    (called = "slither" /\ ~proc.raised) =>
        /\ json_loads(Selected).ok =>
            /\ "slither_output" \in DOMAIN ret
            /\ ret.success = (proc.returncode = 0)
            /\ ret.slither_output = json_loads(Selected).val
        /\ (proc.stdout = <<>> /\ proc.stderr = <<>>) =>
            /\ "slither_output" \in DOMAIN ret
            /\ ret.slither_output = JDict
        /\ Selected = <<"[", "1", "]">> =>
            /\ "slither_output" \in DOMAIN ret
            /\ ret.slither_output = JList(<<JInt(1)>>)

C4_Witness ==
    /\ called = "slither"
    /\ ~proc.raised
    /\ proc.returncode = 1
    /\ proc.stdout = <<" ", "1", "1">>
    /\ proc.stderr = <<"x">>
    /\ ret.success = FALSE
    /\ ret.slither_output = JInt(11)

(* C5: when the linter is launched and the selected stream is non-empty    *)
(* text that is not valid JSON, no exception leaves run_slither_check: the *)
(* result has an "error" field with the parse failure and no               *)
(* slither_output field.                                                   *)
C5_ParseFailureRecorded ==
    (called = "slither" /\ ~proc.raised /\ Selected # <<>> /\ ~json_loads(Selected).ok) =>
        /\ ~Escaped(ret)
        /\ "error" \in DOMAIN ret
        /\ "slither_output" \notin DOMAIN ret
        /\ ret.error = ErrorText(json_loads(Selected))
        /\ Selected = <<"[", "1">> => ret.error = "Expecting ',' delimiter: line 1 column 3 (char 2)"

C5_Witness ==
    /\ called = "slither"
    /\ ~proc.raised
    /\ proc.stdout = <<"1", " ", "1">>
    /\ DOMAIN ret = {"file", "success", "error"}
    /\ ret.error = "Extra data: line 1 column 3 (char 2)"

(* C6 as stated: when the linter is launched, success is true if and only  *)
(* if the exit code is zero, whatever the streams hold.                    *)
C6_SuccessIffExitZero ==
    (called = "slither" /\ ~proc.raised) => (ret.success <=> proc.returncode = 0)

(* C6 amended: when the linter is launched, success is true if and only if *)
(* the exit code is zero and the selected stream is empty or valid JSON.   *)
C6_SuccessIffExitZeroAndParsed ==
    (called = "slither" /\ ~proc.raised) =>
        (ret.success <=>
            /\ proc.returncode = 0
            /\ (Selected = <<>> \/ json_loads(Selected).ok))

C6_Witness ==
    /\ called = "slither"
    /\ ~proc.raised
    /\ proc.returncode = 0
    /\ proc.stdout = <<"x">>
    /\ ret.success = FALSE

(* The slither events whose results combined_results still holds. *)
IsStored(i) ==
    /\ log[i].op = "slither"
    /\ \A j \in (i + 1)..Len(log) :
        log[j].op = "slither" => Key(log[j].file) # Key(log[i].file)

LaunchFailureRecorded(o, r) ==
    o.raised => (DOMAIN r = {"file", "success", "error"} /\ r.success = FALSE /\ r.error = o.exc)

(* C7: no failure of a tool for one target halts the batch: no exception   *)
(* leaves a wrapper and the run can always go on until the report is       *)
(* written; a launch failure, a nonzero exit and unparsable linter output  *)
(* are recorded in the target's result; when the run is over every         *)
(* non-skipped target has been analysed with both tools and the report     *)
(* holds the aggregate.                                                    *)
C7_BatchContinues ==
    /\ pc \in {"start", "loop", "slither", "done"}
    /\ pc # "done" => ENABLED Next
    /\ \A i \in 1..Len(log) : IsStored(i) =>
        LET entry == combined_results[Key(log[i].file)]
            so == log[i - 1].proc
            sl == log[i].proc
        IN /\ ~Escaped(entry.solc) /\ ~Escaped(entry.slither)
           /\ LaunchFailureRecorded(so, entry.solc)
           /\ LaunchFailureRecorded(sl, entry.slither)
           /\ (~so.raised /\ so.returncode # 0) => entry.solc.success = FALSE
           /\ (~sl.raised /\ sl.returncode # 0) => entry.slither.success = FALSE
           /\ (~sl.raised /\ sl.stdout = <<"x">>) =>
                (entry.slither.success = FALSE /\ "error" \in DOMAIN entry.slither)
    /\ pc = "done" =>
        /\ \A p \in Deep : Ran("solc", p) /\ Ran("slither", p)
        /\ report = [exists |-> TRUE, content |-> combined_results]

C7_Witness ==
    /\ pc = "done"
    /\ report.exists
    /\ \E i, j, k \in 1..Len(log) :
        /\ i < j /\ j < k
        /\ log[i].op = "solc" /\ log[i].proc.raised
        /\ log[j].op = "slither" /\ log[j].proc.stdout = <<"x">>
        /\ log[k].op = "slither" /\ log[k].proc.returncode = 1
        /\ Cardinality({log[i].file, log[j].file, log[k].file}) = 3
        /\ Key(log[k].file) \in DOMAIN report.content

(* C8: after a second or later run the report holds exactly the entries of *)
(* that run: every key comes from a file analysed in that run, with the    *)
(* value computed in that run, and a key that only the previous report had *)
(* is gone.                                                                *)
C8_ReportReplaced ==
    (pc = "done" /\ run >= 2) =>
        /\ report.exists
        /\ \A k \in DOMAIN report.content :
            /\ \E i \in 1..Len(log) : log[i].op = "slither" /\ FirstDirKey(log[i].file) = k
            /\ k \in DOMAIN combined_results
            /\ report.content[k] = combined_results[k]
        /\ \A k \in DOMAIN combined_results : k \in DOMAIN report.content
        /\ \A k \in DOMAIN overwritten.content :
            (\A i \in 1..Len(log) : log[i].op = "slither" => FirstDirKey(log[i].file) # k)
                => k \notin DOMAIN report.content

C8_Witness ==
    /\ pc = "done"
    /\ run = 2
    /\ overwritten.exists
    /\ ModelAFoo \notin fs
    /\ DOMAIN overwritten.content = {<<"modelA", "/", "foo">>, <<"modelB", "/", "bar", ".", "t">>}
    /\ DOMAIN report.content = {<<"modelB", "/", "bar", ".", "t">>}
    /\ report.content[<<"modelB", "/", "bar", ".", "t">>]
         # overwritten.content[<<"modelB", "/", "bar", ".", "t">>]

(* C9: within a run the compiler check of a target is directly followed by *)
(* the linter check of the same target, nothing of another target comes in *)
(* between, each target is checked once, and the report is written once,   *)
(* as the last event, after both checks of every non-skipped target.       *)
C9_Sequential ==
    /\ \A i \in 1..Len(log) :
        /\ log[i].op = "solc" =>
            IF i = Len(log) THEN pc = "slither"
            ELSE log[i + 1].op = "slither" /\ log[i + 1].file = log[i].file
        /\ log[i].op = "slither" =>
            i > 1 /\ log[i - 1].op = "solc" /\ log[i - 1].file = log[i].file
        /\ log[i].op = "write" =>
            /\ i = Len(log)
            /\ pc = "done"
            /\ remaining = {}
            /\ stack = <<>>
            /\ \A p \in Deep : \E j, k \in 1..(i - 1) :
                /\ j < k
                /\ log[j].op = "solc" /\ log[j].file = p
                /\ log[k].op = "slither" /\ log[k].file = p
        /\ \A j \in 1..Len(log) :
            (log[j].op = log[i].op /\ log[j].file = log[i].file) => j = i
    /\ pc = "slither" => (Len(log) > 0 /\ log[Len(log)].op = "solc")
    /\ pc = "done" => (Len(log) > 0 /\ log[Len(log)].op = "write")
    /\ pc # "done" => report = NoFile

C9_Witness ==
    /\ pc = "done"
    /\ Len(log) = 7
    /\ log[7].op = "write"
    /\ log[3].op = "solc" /\ log[4].op = "slither"
    /\ log[3].file = log[4].file

(* C10: when two analysed files have the same key, the report has a single *)
(* entry for it, holding the two results of the file analysed later; the   *)
(* number of entries is the number of distinct keys.                       *)
C10_LastWins ==
    pc = "done" =>
        /\ \A p \in Deep : Ran("solc", p) /\ Ran("slither", p)
        /\ Cardinality(DOMAIN report.content)
             = Cardinality({FirstDirKey(p) : p \in Deep})
        /\ \A i \in 1..Len(log) : log[i].op = "slither" =>
            LET k == FirstDirKey(log[i].file)
                later == {j \in (i + 1)..Len(log) :
                            log[j].op = "slither" /\ FirstDirKey(log[j].file) = k}
            IN later = {} =>
                /\ k \in DOMAIN report.content
                /\ report.content[k].solc = run_solc_check(str(log[i].file), log[i - 1].proc)
                /\ report.content[k].slither = run_slither_check(str(log[i].file), log[i].proc)
                /\ FilesOf(report.content[k]) = {str(log[i].file)}

C10_Witness ==
    /\ pc = "done"
    /\ {ModelAFoo, NestedFoo} \subseteq Deep
    /\ Ran("slither", ModelAFoo)
    /\ Ran("slither", NestedFoo)
    /\ Cardinality(Deep) = 2
    /\ Cardinality(DOMAIN report.content) = 1
    /\ \E i, j \in 1..Len(log) :
        /\ i < j
        /\ log[i].op = "slither" /\ log[i].file = ModelAFoo
        /\ log[j].op = "slither" /\ log[j].file = NestedFoo
        /\ FilesOf(report.content[<<"modelA", "/", "foo">>]) = {str(NestedFoo)}

====
